---- MODULE Spec2Model ----
(***************************************************************************)
(* Model of src/credentials.py: the credentials class (add, clear, get,    *)
(* list_all, prepare, rename, search, update) over a Secrets Manager       *)
(* backend, and load_credentials over a DynamoDB table.                    *)
(*                                                                         *)
(* Python strings are sequences of one-character strings, so that lower(), *)
(* the '/' join, split('/'), sorted(), str(dict) and eval() are computed.  *)
(* Python values are tagged records: str, int, dict (insertion-ordered     *)
(* sequence of <<key, value>> pairs) and None.                             *)
(***************************************************************************)
EXTENDS Integers, Sequences, FiniteSets, TLC

\* ------------------------------------------------------------------ bounds
\* The clock (datetime.now()) is a counter: it advances by one whenever the
\* backend commits a write, so two stamps taken on either side of a write
\* differ and stamps are ordered as the writes are. An operation that writes
\* starts only while the clock is below MaxTime; reads are always enabled.
MaxTime == 3
\* The backend returns at most this many names per list_secrets page.
MaxPageSize == 2

\* ------------------------------------------------------- python strings
S1(a) == <<a>>

SLASH == "/"
SPACE == " "
QUOTE == "'"

DigitChars == <<"0", "1", "2", "3", "4", "5", "6", "7", "8", "9">>
IsDigit(c) == \E i \in 1..10 : DigitChars[i] = c
DigitVal(c) == (CHOOSE i \in 1..10 : DigitChars[i] = c) - 1

UpperChars == <<"A", "B", "D", "X">>
LowerChars == <<"a", "b", "d", "x">>

\* str.lower(), character by character
lower_char(c) ==
  IF \E i \in 1..Len(UpperChars) : UpperChars[i] = c
  THEN LowerChars[CHOOSE i \in 1..Len(UpperChars) : UpperChars[i] = c]
  ELSE c

lower(s) == [i \in 1..Len(s) |-> lower_char(s[i])]

\* code points of the characters that occur in identifiers
ord(c) ==
  CASE c = "/" -> 47
    [] c = "A" -> 65
    [] c = "B" -> 66
    [] c = "D" -> 68
    [] c = "X" -> 88
    [] c = "a" -> 97
    [] c = "b" -> 98
    [] c = "d" -> 100
    [] c = "f" -> 102
    [] c = "x" -> 120
    [] c = "y" -> 121
    [] OTHER -> 0

\* s < t for Python strings (lexicographic by code point)
RECURSIVE str_lt(_, _)
str_lt(s, t) ==
  IF t = <<>> THEN FALSE
  ELSE IF s = <<>> THEN TRUE
  ELSE IF ord(Head(s)) # ord(Head(t)) THEN ord(Head(s)) < ord(Head(t))
  ELSE str_lt(Tail(s), Tail(t))

\* insertion of x into an already sorted list, after its equals (stable)
RECURSIVE insort(_, _)
insort(x, l) ==
  IF l = <<>> THEN <<x>>
  ELSE IF str_lt(x, Head(l)) THEN <<x>> \o l
  ELSE <<Head(l)>> \o insort(x, Tail(l))

\* sorted(list of strings): keeps duplicates
RECURSIVE sorted(_)
sorted(l) ==
  IF l = <<>> THEN <<>>
  ELSE insort(l[Len(l)], sorted(SubSeq(l, 1, Len(l) - 1)))

\* str.split('/'): the list of the pieces between the slashes
RECURSIVE split(_)
split(s) ==
  IF \A i \in 1..Len(s) : s[i] # SLASH THEN <<s>>
  ELSE LET i == CHOOSE j \in 1..Len(s) :
                  s[j] = SLASH /\ \A k \in 1..(j - 1) : s[k] # SLASH
       IN <<SubSeq(s, 1, i - 1)>> \o split(SubSeq(s, i + 1, Len(s)))

\* f'{account}/{protocol}/{name}'
fkey(account, protocol, name) ==
  account \o <<SLASH>> \o protocol \o <<SLASH>> \o name

\* --------------------------------------------------------- python values
pyNone == [ty |-> "NoneType"]
pyStr(s) == [ty |-> "str", s |-> s]
pyInt(n) == [ty |-> "int", n |-> n]
pyDict(items) == [ty |-> "dict", items |-> items]

\* str(n) for a natural number
RECURSIVE str_int(_)
str_int(n) ==
  IF n < 10 THEN <<DigitChars[n + 1]>>
  ELSE str_int(n \div 10) \o <<DigitChars[(n % 10) + 1]>>

\* int(s) for a string of digits; -1 stands for ValueError
RECURSIVE int_digits(_, _)
int_digits(s, acc) ==
  IF s = <<>> THEN acc
  ELSE int_digits(Tail(s), acc * 10 + DigitVal(Head(s)))

int_str(s) ==
  IF s # <<>> /\ \A i \in 1..Len(s) : IsDigit(s[i]) THEN int_digits(s, 0)
  ELSE -1

\* d[k] = v: replaces the value in place when k is present, else appends
RECURSIVE setitem(_, _, _)
setitem(items, k, v) ==
  IF items = <<>> THEN << <<k, v>> >>
  ELSE IF Head(items)[1] = k THEN << <<k, v>> >> \o Tail(items)
  ELSE <<Head(items)>> \o setitem(Tail(items), k, v)

haskey(items, k) == \E i \in 1..Len(items) : items[i][1] = k
getitem(items, k) == items[CHOOSE i \in 1..Len(items) : items[i][1] = k][2]

\* repr() of a str (no quotes or backslashes inside), an int, a dict
RECURSIVE repr(_)
RECURSIVE repr_items(_)
repr_items(items) ==
  IF items = <<>> THEN <<>>
  ELSE repr(pyStr(Head(items)[1])) \o <<":", SPACE>> \o repr(Head(items)[2])
       \o (IF Len(items) > 1 THEN <<",", SPACE>> ELSE <<>>)
       \o repr_items(Tail(items))

repr(v) ==
  CASE v.ty = "str" -> <<QUOTE>> \o v.s \o <<QUOTE>>
    [] v.ty = "int" -> str_int(v.n)
    [] v.ty = "dict" -> <<"{">> \o repr_items(v.items) \o <<"}">>
    [] OTHER -> <<"N", "o", "n", "e">>

\* str(payload)
str(v) == IF v.ty = "str" THEN v.s ELSE repr(v)

\* ---------------------------------------------------------------- eval()
\* eval(secret) of a string written by str(payload): a literal parser for
\* quoted strings, decimal integers and dict displays.
at(s, i) == IF i \in 1..Len(s) THEN s[i] ELSE "EOF"
ParseFail == [ok |-> FALSE, val |-> pyNone, next |-> 0]

parse_quoted(s, i) ==
  IF at(s, i) # QUOTE \/ ~(\E j \in (i + 1)..Len(s) : s[j] = QUOTE)
  THEN ParseFail
  ELSE LET j == CHOOSE j \in (i + 1)..Len(s) :
                  s[j] = QUOTE /\ \A k \in (i + 1)..(j - 1) : s[k] # QUOTE
       IN [ok |-> TRUE, val |-> pyStr(SubSeq(s, i + 1, j - 1)), next |-> j + 1]

parse_number(s, i) ==
  LET j == CHOOSE j \in i..Len(s) :
             /\ \A k \in i..j : IsDigit(s[k])
             /\ ~IsDigit(at(s, j + 1))
  IN [ok |-> TRUE, val |-> pyInt(int_digits(SubSeq(s, i, j), 0)), next |-> j + 1]

RECURSIVE parse_value(_, _)
RECURSIVE parse_items(_, _, _)
parse_items(s, i, acc) ==
  LET k == parse_quoted(s, i) IN
  IF ~k.ok \/ at(s, k.next) # ":" \/ at(s, k.next + 1) # SPACE THEN ParseFail
  ELSE LET v == parse_value(s, k.next + 2) IN
       IF ~v.ok THEN ParseFail
       ELSE LET acc2 == setitem(acc, k.val.s, v.val) IN
            IF at(s, v.next) = "}"
            THEN [ok |-> TRUE, val |-> pyDict(acc2), next |-> v.next + 1]
            ELSE IF at(s, v.next) = "," /\ at(s, v.next + 1) = SPACE
            THEN parse_items(s, v.next + 2, acc2)
            ELSE ParseFail

parse_value(s, i) ==
  CASE at(s, i) = QUOTE -> parse_quoted(s, i)
    [] IsDigit(at(s, i)) -> parse_number(s, i)
    [] at(s, i) = "{" ->
         IF at(s, i + 1) = "}"
         THEN [ok |-> TRUE, val |-> pyDict(<<>>), next |-> i + 2]
         ELSE parse_items(s, i + 1, <<>>)
    [] OTHER -> ParseFail

\* eval(secret); pyNone stands for a SyntaxError
eval(s) ==
  LET r == parse_value(s, 1) IN
  IF r.ok /\ r.next = Len(s) + 1 THEN r.val ELSE pyNone

\* ------------------------------------------------------------ input sets
\* the (account, protocol, name) triplets the operations are called with
Triplets ==
  { <<S1("a"), S1("d"), S1("x")>>, <<S1("A"), S1("d"), S1("x")>>,
    <<S1("a"), S1("d"), S1("y")>>, <<S1("b"), S1("d"), S1("x")>> }

K_port == <<"p", "o", "r", "t">>
K_host == <<"h", "o", "s", "t">>
K_by == <<"l", "a", "s", "t", "_", "m", "o", "d", "i", "f", "i", "e", "d", "_", "b", "y">>
K_time == <<"l", "a", "s", "t", "_", "m", "o", "d", "i", "f", "i", "e", "d", "_", "t", "i", "m", "e">>

DictPayloads ==
  { pyDict(<< <<K_host, pyStr(S1("h"))>> >>),
    pyDict(<< <<K_host, pyStr(S1("g"))>>, <<K_port, pyStr(<<"5", "4", "3", "2">>)>> >>) }
Payloads == DictPayloads \cup {pyStr(S1("v"))}

\* search() filters: None or a string in each position
SearchFilters ==
  { <<pyNone, pyNone, pyNone>>,
    <<pyStr(S1("a")), pyNone, pyNone>>, <<pyStr(S1("A")), pyNone, pyNone>>,
    <<pyStr(S1("b")), pyNone, pyNone>>,
    <<pyNone, pyStr(S1("d")), pyStr(S1("x"))>>,
    <<pyStr(S1("a")), pyStr(S1("d")), pyStr(S1("y"))>> }

\* ------------------------------------------------------------ exceptions
NoException == "none"
ResourceExistsException == "ResourceExistsException"
ResourceNotFoundException == "ResourceNotFoundException"
KeyError_EmptyPayload == "KeyError: Namespace exists, but the payload is empty"
KeyError_NothingRenamed == "KeyError: Nothing has been renamed!"
KeyError_NoCredentials == "KeyError: No credentials exist"
KeyError_NextToken == "KeyError: 'NextToken'"
TypeError_NotDict == "TypeError: Please pass payload as a dictionary"
TypeError_ItemAssignment == "TypeError: object does not support item assignment"
ValueError_Unpack == "ValueError: unpack"
SyntaxError_Eval == "SyntaxError"

\* ----------------------------------------------------------------- state
VARIABLES
  secrets,   \* backend: SecretId -> SecretString, for the ids that exist
  listing,   \* backend: the names in the order list_secrets returns them
  now,       \* datetime.now()
  key,       \* self.key (NoKey until an operation sets it)
  user,      \* self.user
  call,      \* the operation last called, with its arguments
  calls,     \* the backend calls that operation made, in order
  out,       \* the lines that operation printed
  outcome,   \* what it raised and what it returned
  table,     \* DynamoDB table: client -> Item
  procs      \* the callers of rename that run step by step: where each is

vars == <<secrets, listing, now, key, user, call, calls, out, outcome, table, procs>>

\* __init__ sets no key attribute: the identifier no operation builds
NoKey == <<>>

\* The part of the state one handler reads and writes, threaded through
\* the calls it makes.
Raise(st, e) == [st |-> st, exc |-> e, ret |-> pyNone]
Return(st, v) == [st |-> st, exc |-> NoException, ret |-> v]

\* ------------------------------------------- Secrets Manager (self.client)
roundtrip(st, api) == [st EXCEPT !.calls = Append(@, api)]
committed(st) == [st EXCEPT !.now = @ + 1]

create_secret(st, Name, SecretString) ==
  LET s1 == roundtrip(st, "create_secret") IN
  IF Name \in DOMAIN st.secrets THEN Raise(s1, ResourceExistsException)
  ELSE Return(committed([s1 EXCEPT !.secrets = (Name :> SecretString) @@ st.secrets,
                                   !.listing = Append(@, Name)]), pyNone)

get_secret_value(st, SecretId) ==
  LET s1 == roundtrip(st, "get_secret_value") IN
  IF SecretId \notin DOMAIN st.secrets THEN Raise(s1, ResourceNotFoundException)
  ELSE Return(s1, [SecretString |-> st.secrets[SecretId]])

update_secret(st, SecretId, SecretString) ==
  LET s1 == roundtrip(st, "update_secret") IN
  IF SecretId \notin DOMAIN st.secrets THEN Raise(s1, ResourceNotFoundException)
  ELSE Return(committed([s1 EXCEPT !.secrets = [@ EXCEPT ![SecretId] = SecretString]]),
              pyNone)

\* one page of at most ps names starting after NextToken; the response has
\* a NextToken only when names remain
list_secrets(st, NextToken, ps) ==
  LET s1 == roundtrip(st, "list_secrets")
      last == IF NextToken + ps < Len(st.listing) THEN NextToken + ps
              ELSE Len(st.listing)
      page == SubSeq(st.listing, NextToken + 1, last)
  IN IF last < Len(st.listing)
     THEN Return(s1, [SecretList |-> page, NextToken |-> last])
     ELSE Return(s1, [SecretList |-> page])

\* ------------------------------------------------------ class credentials
\* payload['last_modified_by'] = self.user
\* payload['last_modified_time'] = str(datetime.now())
stamp_by_only(st, payload) ==
  pyDict(setitem(payload.items, K_by, pyStr(st.user)))

stamp(st, payload) ==
  pyDict(setitem(setitem(payload.items, K_by, pyStr(st.user)),
                 K_time, pyStr(str_int(st.now))))

prepare(st, payload) ==
  IF payload.ty = "dict" THEN Return(st, pyNone)
  ELSE Raise(st, TypeError_NotDict)

\* The result of add and update also carries the caller's payload object,
\* which they modify in place.
WithPayload(r, payload) == [st |-> r.st, exc |-> r.exc, ret |-> r.ret, payload |-> payload]

\* add that validates the payload only after the backend call
add_validate_late(st, account, protocol, name, payload) ==
  LET s1 == [st EXCEPT !.key = fkey(lower(account), lower(protocol), lower(name))]
      payload1 == IF payload.ty = "dict" THEN stamp(s1, payload) ELSE payload
      c == create_secret(s1, s1.key, str(payload1))
      p == prepare(c.st, payload)
  IN IF c.exc # NoException THEN WithPayload(c, payload1)
     ELSE IF p.exc # NoException THEN WithPayload(p, payload1)
     ELSE WithPayload(
            Return([c.st EXCEPT !.out = Append(@, <<"Added:", s1.key>>)], pyNone),
            payload1)

\* add that, like rename, falls back to update_secret when the secret exists
add_upsert(st, account, protocol, name, payload) ==
  LET s1 == [st EXCEPT !.key = fkey(lower(account), lower(protocol), lower(name))]
      p == prepare(s1, payload)
  IN IF p.exc # NoException THEN WithPayload(p, payload)
     ELSE LET payload1 == stamp(s1, payload)
              c == create_secret(s1, s1.key, str(payload1))
              w == IF c.exc = NoException THEN c
                   ELSE update_secret(c.st, s1.key, str(payload1))
          IN IF w.exc # NoException THEN WithPayload(w, payload1)
             ELSE WithPayload(
                    Return([w.st EXCEPT !.out = Append(@, <<"Added:", s1.key>>)], pyNone),
                    payload1)

add(st, account, protocol, name, payload) ==
  LET s1 == [st EXCEPT !.key = fkey(lower(account), lower(protocol), lower(name))]
      p == prepare(s1, payload)
  IN IF p.exc # NoException THEN WithPayload(p, payload)
     ELSE LET payload1 == stamp(s1, payload)
              c == create_secret(s1, s1.key, str(payload1))
          IN IF c.exc # NoException THEN WithPayload(c, payload1)
             ELSE WithPayload(
                    Return([c.st EXCEPT !.out = Append(@, <<"Added:", s1.key>>)], pyNone),
                    payload1)

\* clear that reuses self.key as the last call left it
clear_key_reuse(st, account, protocol, name) ==
  LET s1 == IF st.key = NoKey THEN [st EXCEPT !.key = fkey(account, protocol, name)]
            ELSE st
      u == update_secret(s1, s1.key, <<SPACE>>)
  IN IF u.exc # NoException THEN u
     ELSE Return([u.st EXCEPT !.out = Append(@, <<"Cleared:", s1.key>>)], pyNone)

clear(st, account, protocol, name) ==
  LET s1 == [st EXCEPT !.key = fkey(account, protocol, name)]
      u == update_secret(s1, s1.key, <<SPACE>>)
  IN IF u.exc # NoException THEN u
     ELSE Return([u.st EXCEPT !.out = Append(@, <<"Cleared:", s1.key>>)], pyNone)

\* get that keeps the identifier in a local variable instead of self.key
get_local_key(st, account, protocol, name) ==
  LET g == get_secret_value(st, fkey(account, protocol, name))
  IN IF g.exc # NoException THEN g
     ELSE IF g.ret.SecretString = <<SPACE>> THEN Raise(g.st, KeyError_EmptyPayload)
     ELSE IF eval(g.ret.SecretString) = pyNone THEN Raise(g.st, SyntaxError_Eval)
     ELSE Return(g.st, eval(g.ret.SecretString))

\* get that converts a port field to an integer, as load_credentials does
get_coerce_port(st, account, protocol, name) ==
  LET s1 == [st EXCEPT !.key = fkey(account, protocol, name)]
      g == get_secret_value(s1, s1.key)
  IN IF g.exc # NoException THEN g
     ELSE IF g.ret.SecretString = <<SPACE>> THEN Raise(g.st, KeyError_EmptyPayload)
     ELSE IF eval(g.ret.SecretString) = pyNone THEN Raise(g.st, SyntaxError_Eval)
     ELSE LET cred == eval(g.ret.SecretString) IN
          IF haskey(cred.items, K_port) /\ getitem(cred.items, K_port).ty = "str"
          THEN Return(g.st, pyDict(setitem(cred.items, K_port,
                        pyInt(int_str(getitem(cred.items, K_port).s)))))
          ELSE Return(g.st, cred)

\* get that tests for the empty string instead of the single space
get_empty_string(st, account, protocol, name) ==
  LET s1 == [st EXCEPT !.key = fkey(account, protocol, name)]
      g == get_secret_value(s1, s1.key)
  IN IF g.exc # NoException THEN g
     ELSE IF g.ret.SecretString = <<>> THEN Raise(g.st, KeyError_EmptyPayload)
     ELSE IF eval(g.ret.SecretString) = pyNone THEN Raise(g.st, SyntaxError_Eval)
     ELSE Return(g.st, eval(g.ret.SecretString))

get(st, account, protocol, name) ==
  LET s1 == [st EXCEPT !.key = fkey(account, protocol, name)]
      g == get_secret_value(s1, s1.key)
  IN IF g.exc # NoException THEN g
     ELSE IF g.ret.SecretString = <<SPACE>> THEN Raise(g.st, KeyError_EmptyPayload)
     ELSE IF eval(g.ret.SecretString) = pyNone THEN Raise(g.st, SyntaxError_Eval)
     ELSE Return(g.st, eval(g.ret.SecretString))

\* the while loop of list_all: next_page is the page just fetched
RECURSIVE list_all_loop(_, _, _, _)
list_all_loop(st, secrets_, next_page, ps) ==
  IF "NextToken" \in DOMAIN next_page
  THEN LET n == list_secrets(st, next_page.NextToken, ps)
       IN list_all_loop(n.st, secrets_ \o next_page.SecretList, n.ret, ps)
  ELSE Return(st, sorted(secrets_ \o next_page.SecretList))

list_all(st, ps) ==
  LET first_page == list_secrets(st, 0, ps) IN
  IF "NextToken" \notin DOMAIN first_page.ret
  THEN Raise(first_page.st, KeyError_NextToken)
  ELSE LET next_page == list_secrets(first_page.st, first_page.ret.NextToken, ps)
       IN list_all_loop(next_page.st, first_page.ret.SecretList, next_page.ret, ps)

\* update that creates the secret when it does not exist
update_upsert(st, account, protocol, name, payload) ==
  LET s1 == [st EXCEPT !.key = fkey(account, protocol, name)] IN
  IF payload.ty # "dict" THEN WithPayload(Raise(s1, TypeError_ItemAssignment), payload)
  ELSE LET payload1 == stamp(s1, payload)
           p == prepare(s1, payload1)
       IN IF p.exc # NoException THEN WithPayload(p, payload1)
          ELSE LET u == update_secret(s1, s1.key, str(payload1))
                   w == IF u.exc = NoException THEN u
                        ELSE create_secret(u.st, s1.key, str(payload1))
               IN IF w.exc # NoException THEN WithPayload(w, payload1)
                  ELSE WithPayload(
                         Return([w.st EXCEPT !.out = Append(@, <<"Updated:", s1.key>>)], pyNone),
                         payload1)

\* update that writes the payload as passed, without the two audit fields
update_unstamped(st, account, protocol, name, payload) ==
  LET s1 == [st EXCEPT !.key = fkey(account, protocol, name)] IN
  IF payload.ty # "dict" THEN WithPayload(Raise(s1, TypeError_ItemAssignment), payload)
  ELSE LET p == prepare(s1, payload)
       IN IF p.exc # NoException THEN WithPayload(p, payload)
          ELSE LET u == update_secret(s1, s1.key, str(payload))
               IN IF u.exc # NoException THEN WithPayload(u, payload)
                  ELSE WithPayload(
                         Return([u.st EXCEPT !.out = Append(@, <<"Updated:", s1.key>>)], pyNone),
                         payload)

update(st, account, protocol, name, payload) ==
  LET s1 == [st EXCEPT !.key = fkey(account, protocol, name)] IN
  IF payload.ty # "dict" THEN WithPayload(Raise(s1, TypeError_ItemAssignment), payload)
  ELSE LET payload1 == stamp(s1, payload)
           p == prepare(s1, payload1)
       IN IF p.exc # NoException THEN WithPayload(p, payload1)
          ELSE LET u == update_secret(s1, s1.key, str(payload1))
               IN IF u.exc # NoException THEN WithPayload(u, payload1)
                  ELSE WithPayload(
                         Return([u.st EXCEPT !.out = Append(@, <<"Updated:", s1.key>>)], pyNone),
                         payload1)

\* the comparison with one operand mistyped: old_account against new_protocol
any_renamed_typo(old_account, old_protocol, old_name, new_account, new_protocol, new_name) ==
  old_account # new_protocol \/ old_protocol # new_protocol \/ old_name # new_name

\* any([(old_account != new_account), (old_protocol != new_protocol), (old_name != new_name)])
any_renamed(old_account, old_protocol, old_name, new_account, new_protocol, new_name) ==
  old_account # new_account \/ old_protocol # new_protocol \/ old_name # new_name

\* the first part of rename without the test for the cleared secret
rename_read_unchecked(st, old_account, old_protocol, old_name, new_account, new_protocol, new_name) ==
  LET old_key == fkey(old_account, old_protocol, old_name)
  IN IF ~any_renamed(old_account, old_protocol, old_name, new_account, new_protocol, new_name)
     THEN WithPayload(Raise(st, KeyError_NothingRenamed), pyNone)
     ELSE
     LET s1 == [st EXCEPT !.out = Append(@, <<old_key>>)]
         g == get_secret_value(s1, old_key)
     IN IF g.exc # NoException THEN WithPayload(g, pyNone)
        ELSE
        LET payload0 == eval(g.ret.SecretString) IN
        IF payload0 = pyNone THEN WithPayload(Raise(g.st, SyntaxError_Eval), pyNone)
        ELSE IF payload0.ty # "dict"
        THEN WithPayload(Raise(g.st, TypeError_ItemAssignment), payload0)
        ELSE WithPayload(prepare(g.st, stamp(g.st, payload0)), stamp(g.st, payload0))

\* rename that clears the old identifier right after reading it
rename_read_take(st, old_account, old_protocol, old_name, new_account, new_protocol, new_name) ==
  LET old_key == fkey(old_account, old_protocol, old_name)
  IN IF ~any_renamed(old_account, old_protocol, old_name, new_account, new_protocol, new_name)
     THEN WithPayload(Raise(st, KeyError_NothingRenamed), pyNone)
     ELSE
     LET s1 == [st EXCEPT !.out = Append(@, <<old_key>>)]
         g == get_secret_value(s1, old_key)
     IN IF g.exc # NoException THEN WithPayload(g, pyNone)
        ELSE IF g.ret.SecretString = <<SPACE>>
        THEN WithPayload(Raise(g.st, KeyError_NoCredentials), pyNone)
        ELSE
        LET payload0 == eval(g.ret.SecretString)
            c == clear(g.st, old_account, old_protocol, old_name)
        IN
        IF payload0 = pyNone THEN WithPayload(Raise(g.st, SyntaxError_Eval), pyNone)
        ELSE IF payload0.ty # "dict"
        THEN WithPayload(Raise(g.st, TypeError_ItemAssignment), payload0)
        ELSE WithPayload(prepare(c.st, stamp(g.st, payload0)), stamp(g.st, payload0))

\* rename up to the call of add: the assertion, the read of the old secret,
\* the test for the cleared secret, eval, the two audit fields and prepare
rename_read(st, old_account, old_protocol, old_name, new_account, new_protocol, new_name) ==
  LET old_key == fkey(old_account, old_protocol, old_name)
  IN IF ~any_renamed(old_account, old_protocol, old_name, new_account, new_protocol, new_name)
     THEN WithPayload(Raise(st, KeyError_NothingRenamed), pyNone)
     ELSE
     LET s1 == [st EXCEPT !.out = Append(@, <<old_key>>)]
         g == get_secret_value(s1, old_key)
     IN IF g.exc # NoException THEN WithPayload(g, pyNone)
        ELSE IF g.ret.SecretString = <<SPACE>>
        THEN WithPayload(Raise(g.st, KeyError_NoCredentials), pyNone)
        ELSE
        LET payload0 == eval(g.ret.SecretString) IN
        IF payload0 = pyNone THEN WithPayload(Raise(g.st, SyntaxError_Eval), pyNone)
        ELSE IF payload0.ty # "dict"
        THEN WithPayload(Raise(g.st, TypeError_ItemAssignment), payload0)
        ELSE WithPayload(prepare(g.st, stamp(g.st, payload0)), stamp(g.st, payload0))

\* the fallback of rename: update and the warning
rename_fallback(st, old_account, old_protocol, old_name, new_account, new_protocol, new_name, payload) ==
  LET old_key == fkey(old_account, old_protocol, old_name)
      new_key == fkey(new_account, new_protocol, new_name)
      u == update(st, new_account, new_protocol, new_name, payload)
  IN IF u.exc # NoException THEN u
     ELSE WithPayload(
            Return([u.st EXCEPT !.out = Append(@, <<"Warning:", new_key, old_key>>)], pyNone),
            u.payload)

rename(st, old_account, old_protocol, old_name, new_account, new_protocol, new_name) ==
  LET r == rename_read(st, old_account, old_protocol, old_name,
                       new_account, new_protocol, new_name)
  IN IF r.exc # NoException THEN Raise(r.st, r.exc)
     ELSE
     LET a == add(r.st, new_account, new_protocol, new_name, r.payload) IN
     IF a.exc = NoException
     THEN clear(a.st, old_account, old_protocol, old_name)
     ELSE \* except Exception: the fallback
     LET u == rename_fallback(a.st, old_account, old_protocol, old_name,
                              new_account, new_protocol, new_name, a.payload)
     IN IF u.exc # NoException THEN Raise(u.st, u.exc)
        ELSE clear(u.st, old_account, old_protocol, old_name)

\* the for loop of search over the listed secrets
RECURSIVE search_loop(_, _, _, _, _)
search_loop(st, secrets_, account, protocol, name) ==
  IF secrets_ = <<>> THEN Return(st, pyNone)
  ELSE LET secret == Head(secrets_)
           parts == split(secret)
       IN IF Len(parts) # 3 THEN Raise(st, ValueError_Unpack)
          ELSE LET s_account == IF account = pyNone THEN pyNone ELSE pyStr(parts[1])
                   s_protocol == IF protocol = pyNone THEN pyNone ELSE pyStr(parts[2])
                   s_name == IF name = pyNone THEN pyNone ELSE pyStr(parts[3])
                   s2 == IF s_account = account /\ s_protocol = protocol /\ s_name = name
                         THEN [st EXCEPT !.out = Append(@, <<"- get", parts[1], parts[2], parts[3]>>)]
                         ELSE st
               IN search_loop(s2, Tail(secrets_), account, protocol, name)

search(st, account, protocol, name, ps) ==
  LET l == list_all(st, ps) IN
  IF l.exc # NoException THEN l
  ELSE search_loop(l.st, l.ret, account, protocol, name)

\* -------------------------------------------------------- load_credentials
ALL == <<"a", "l", "l">>
K_client == <<"c", "l", "i", "e", "n", "t">>
LookupFailed == "Exception: Could not load credentials for the specified client"

\* d[k] inside the try block: "KeyError" when k is missing or d is no dict
subscript(d, k) ==
  IF d.ty = "dict" /\ haskey(d.items, k) THEN getitem(d.items, k) ELSE pyStr(<<"KeyError">>)
subscript_fails(d, k) == ~(d.ty = "dict" /\ haskey(d.items, k))

\* int(x) of a str or an int; pyNone stands for ValueError / TypeError
int(x) ==
  CASE x.ty = "int" -> x
    [] x.ty = "str" /\ int_str(x.s) >= 0 -> pyInt(int_str(x.s))
    [] OTHER -> pyNone

\* the elif without its test of protocol
selector_elif_name_only(protocol, name) ==
  IF protocol # ALL /\ name = ALL THEN <<protocol>>
  ELSE IF name # ALL THEN <<protocol, name>>
  ELSE <<>>

\* the if / elif / else over protocol and name: the subscripts applied to
\* response['Item']
selector(protocol, name) ==
  IF protocol # ALL /\ name = ALL THEN <<protocol>>
  ELSE IF protocol # ALL /\ name # ALL THEN <<protocol, name>>
  ELSE <<>>

load_credentials(tbl, client, protocol, name) ==
  IF client # ALL
  THEN IF client \notin DOMAIN tbl THEN [exc |-> LookupFailed, ret |-> pyNone]
       ELSE
       LET Item == tbl[client]
           sel == selector(protocol, name)
           fails == \/ Len(sel) >= 1 /\ subscript_fails(Item, sel[1])
                    \/ Len(sel) = 2 /\ subscript_fails(subscript(Item, sel[1]), sel[2])
           cred == IF Len(sel) = 0 THEN Item
                   ELSE IF Len(sel) = 1 THEN subscript(Item, sel[1])
                   ELSE subscript(subscript(Item, sel[1]), sel[2])
       IN IF fails \/ cred.ty # "dict" THEN [exc |-> LookupFailed, ret |-> pyNone]
          ELSE IF haskey(cred.items, K_port)
          THEN LET port == int(getitem(cred.items, K_port)) IN
               IF port = pyNone THEN [exc |-> LookupFailed, ret |-> pyNone]
               ELSE [exc |-> NoException, ret |-> pyDict(setitem(cred.items, K_port, port))]
          ELSE [exc |-> NoException, ret |-> cred]
  ELSE [exc |-> NoException,
        ret |-> [ty |-> "list", items |-> {tbl[c] : c \in DOMAIN tbl}]]

\* the table's possible contents
Bundle1 == pyDict(<< <<K_host, pyStr(S1("h"))>>, <<K_port, pyStr(<<"5", "4", "3", "2">>)>> >>)
Bundle2 == pyDict(<< <<K_host, pyStr(S1("g"))>> >>)
Bundle3 == pyDict(<< <<K_host, pyStr(S1("g"))>>, <<K_port, pyInt(80)>> >>)

Clients == {S1("a"), S1("b")}
LookupProtocols == {S1("d"), S1("f")}
LookupNames == {S1("x"), S1("y")}

\* an Item: the key attribute, then one attribute per protocol
ItemsOf(c) ==
  { pyDict(<< <<K_client, pyStr(c)>>, <<S1("d"), pyDict(<< <<S1("x"), b1>>, <<S1("y"), b2>> >>)>> >>)
      : b1 \in {Bundle1, Bundle2}, b2 \in {Bundle2, Bundle3} }
  \cup
  { pyDict(<< <<K_client, pyStr(c)>>, <<K_port, pyStr(<<"8", "0">>)>>,
              <<S1("f"), pyDict(<< <<S1("x"), b1>> >>)>> >>) : b1 \in {Bundle1, Bundle3} }

Tables ==
  UNION { [D -> UNION {ItemsOf(c) : c \in D}] : D \in SUBSET Clients }

TableOK(t) == \A c \in DOMAIN t : t[c] \in ItemsOf(c)

\* --------------------------------------------------------------- actions
St == [secrets |-> secrets, listing |-> listing, now |-> now, key |-> key,
       user |-> user, calls |-> <<>>, out |-> <<>>]

\* the clock bound: r is the result of a read, or of a write started in time
InTime(r) == r.st.now = now \/ now < MaxTime

\* the handler returned or raised: its effects and its outcome become visible
Do(c, r) ==
  /\ secrets' = r.st.secrets
  /\ listing' = r.st.listing
  /\ now' = r.st.now
  /\ key' = r.st.key
  /\ calls' = r.st.calls
  /\ out' = r.st.out
  /\ call' = c
  /\ outcome' = [exc |-> r.exc, ret |-> r.ret]
  /\ UNCHANGED <<user, table, procs>>

\* the callers of rename whose steps interleave, and a caller before its call
Procs == {1, 2}
NotStarted ==
  [pc |-> "idle", old |-> <<>>, new |-> <<>>, payload |-> pyNone, key |-> NoKey,
   exc |-> NoException, at |-> "idle", via |-> "none"]

\* The backend outlives the process: at construction it is empty, or holds
\* what earlier runs of add left there (Seeded).
Empty ==
  [secrets |-> <<>>, listing |-> <<>>, now |-> 0, key |-> NoKey,
   user |-> S1("u"), calls |-> <<>>, out |-> <<>>]
Seed1 == CHOOSE m \in DictPayloads : ~haskey(m.items, K_port)
Seed2 == CHOOSE m \in DictPayloads : haskey(m.items, K_port)
Seeded ==
  add(add(Empty, S1("b"), S1("d"), S1("x"), Seed1).st,
      S1("a"), S1("d"), S1("y"), Seed2).st

Init ==
  /\ \E s0 \in {Empty, Seeded} :
       /\ secrets = s0.secrets
       /\ listing = s0.listing
  /\ now = Seeded.now
  /\ key = NoKey
  /\ user = S1("u")
  /\ call = [op |-> "init"]
  /\ calls = <<>>
  /\ out = <<>>
  /\ outcome = [exc |-> NoException, ret |-> pyNone]
  /\ table = <<>>
  /\ procs = [p \in Procs |-> NotStarted]

Add ==
  \E t \in Triplets, m \in Payloads :
    /\ InTime(add(St, t[1], t[2], t[3], m))
    /\ Do([op |-> "add", account |-> t[1], protocol |-> t[2], name |-> t[3], payload |-> m],
          add(St, t[1], t[2], t[3], m))

Update ==
  \E t \in Triplets, m \in Payloads :
    /\ InTime(update(St, t[1], t[2], t[3], m))
    /\ Do([op |-> "update", account |-> t[1], protocol |-> t[2], name |-> t[3], payload |-> m],
          update(St, t[1], t[2], t[3], m))

Get ==
  \E t \in Triplets :
    /\ InTime(get(St, t[1], t[2], t[3]))
    /\ Do([op |-> "get", account |-> t[1], protocol |-> t[2], name |-> t[3]],
          get(St, t[1], t[2], t[3]))

Clear ==
  \E t \in Triplets :
    /\ InTime(clear(St, t[1], t[2], t[3]))
    /\ Do([op |-> "clear", account |-> t[1], protocol |-> t[2], name |-> t[3]],
          clear(St, t[1], t[2], t[3]))

Rename ==
  \E t \in Triplets, t2 \in Triplets :
    /\ InTime(rename(St, t[1], t[2], t[3], t2[1], t2[2], t2[3]))
    /\ Do([op |-> "rename", old_account |-> t[1], old_protocol |-> t[2], old_name |-> t[3],
        new_account |-> t2[1], new_protocol |-> t2[2], new_name |-> t2[3]],
          rename(St, t[1], t[2], t[3], t2[1], t2[2], t2[3]))

ListAll ==
  \E ps \in 1..MaxPageSize :
    /\ InTime(list_all(St, ps))
    /\ Do([op |-> "list_all", ps |-> ps], list_all(St, ps))

Search ==
  \E f \in SearchFilters, ps \in 1..MaxPageSize :
    /\ InTime(search(St, f[1], f[2], f[3], ps))
    /\ Do([op |-> "search", account |-> f[1], protocol |-> f[2], name |-> f[3], ps |-> ps],
          search(St, f[1], f[2], f[3], ps))

Next == Add \/ Update \/ Get \/ Clear \/ Rename \/ ListAll \/ Search

Spec == Init /\ [][Next]_vars

\* load_credentials over every table and selector
InitLookup ==
  /\ secrets = <<>>
  /\ listing = <<>>
  /\ now = 0
  /\ key = NoKey
  /\ user = S1("u")
  /\ call = [op |-> "init"]
  /\ calls = <<>>
  /\ out = <<>>
  /\ outcome = [exc |-> NoException, ret |-> pyNone]
  /\ table \in Tables
  /\ TableOK(table)
  /\ procs = [p \in Procs |-> NotStarted]

LoadCredentials ==
  \E c \in Clients \cup {S1("z"), ALL}, p \in LookupProtocols \cup {ALL, K_client},
     n \in LookupNames \cup {ALL} :
    /\ call' = [op |-> "load_credentials", client |-> c, protocol |-> p, name |-> n]
    /\ outcome' = load_credentials(table, c, p, n)
    /\ UNCHANGED <<secrets, listing, now, key, user, calls, out, table, procs>>

NextLookup == LoadCredentials

SpecLookup == InitLookup /\ [][NextLookup]_vars

\* ---------------------------------------------- rename, one call at a time
\* rename makes three or four backend calls and holds no lock: between two
\* of them other callers' calls reach the backend, and the process can be
\* interrupted. Each step below is the code of rename up to and including
\* one backend call, run on the caller's own instance.
StOf(p) == [secrets |-> secrets, listing |-> listing, now |-> now,
            key |-> procs[p].key, user |-> user, calls |-> <<>>, out |-> <<>>]

Step(p, r, q) ==
  /\ secrets' = r.st.secrets
  /\ listing' = r.st.listing
  /\ now' = r.st.now
  /\ procs' = [procs EXCEPT ![p] = [q EXCEPT !.key = r.st.key]]
  /\ UNCHANGED <<key, user, call, calls, out, outcome, table>>

\* lines 158-172: the assertion, get_secret_value, eval, the audit fields
RenameRead(p) ==
  \E o \in Triplets, n \in Triplets :
    /\ procs[p].pc = "idle"
    /\ LET r == rename_read(StOf(p), o[1], o[2], o[3], n[1], n[2], n[3]) IN
       Step(p, r, [procs[p] EXCEPT !.old = o, !.new = n, !.payload = r.payload,
                                   !.exc = r.exc,
                                   !.pc = IF r.exc = NoException THEN "read" ELSE "failed"])

\* line 174: self.add, whose exception the try block catches
RenameAdd(p) ==
  /\ procs[p].pc = "read"
  /\ LET n == procs[p].new
         r == add(StOf(p), n[1], n[2], n[3], procs[p].payload)
     IN Step(p, r, [procs[p] EXCEPT !.payload = r.payload,
                                    !.via = IF r.exc = NoException THEN "add" ELSE @,
                                    !.pc = IF r.exc = NoException THEN "written"
                                           ELSE "except"])

\* lines 175-177: self.update and the warning
RenameFallback(p) ==
  /\ procs[p].pc = "except"
  /\ LET o == procs[p].old
         n == procs[p].new
         r == rename_fallback(StOf(p), o[1], o[2], o[3], n[1], n[2], n[3],
                              procs[p].payload)
     IN Step(p, r, [procs[p] EXCEPT !.payload = r.payload,
                                    !.exc = r.exc,
                                    !.via = IF r.exc = NoException THEN "update" ELSE @,
                                    !.pc = IF r.exc = NoException THEN "written"
                                           ELSE "failed"])

\* line 179: self.clear of the old identifier
RenameClear(p) ==
  /\ procs[p].pc = "written"
  /\ LET o == procs[p].old
         r == clear(StOf(p), o[1], o[2], o[3])
     IN Step(p, r, [procs[p] EXCEPT !.exc = r.exc,
                                    !.pc = IF r.exc = NoException THEN "done"
                                           ELSE "failed"])

\* the process is interrupted between two backend calls of rename
\* (KeyboardInterrupt or a kill: not an Exception the try block catches)
Interrupt(p) ==
  /\ procs[p].pc \in {"read", "except", "written"}
  /\ procs' = [procs EXCEPT ![p].pc = "interrupted", ![p].at = procs[p].pc]
  /\ UNCHANGED <<secrets, listing, now, key, user, call, calls, out, outcome, table>>

\* the interrupted program is started again: the module builds a new
\* instance, __init__ makes no backend call
Restart(p) ==
  /\ procs[p].pc = "interrupted"
  /\ procs' = [procs EXCEPT ![p].pc = "restarted", ![p].key = NoKey]
  /\ UNCHANGED <<secrets, listing, now, key, user, call, calls, out, outcome, table>>

\* the backends rename starts on: what earlier runs of add and clear left
Seeded3 == add(Seeded, S1("a"), S1("d"), S1("x"), Seed1).st
SeededCleared == clear(Seeded, S1("b"), S1("d"), S1("x")).st
RenameBackends == {Seeded, Seeded3, SeededCleared}

InitRename ==
  /\ \E s0 \in RenameBackends :
       /\ secrets = s0.secrets
       /\ listing = s0.listing
       /\ now = s0.now
  /\ key = NoKey
  /\ user = S1("u")
  /\ call = [op |-> "init"]
  /\ calls = <<>>
  /\ out = <<>>
  /\ outcome = [exc |-> NoException, ret |-> pyNone]
  /\ table = <<>>
  /\ procs = [p \in Procs |-> NotStarted]

\* one caller, who can be interrupted
NextInterrupt ==
  \/ RenameRead(1)
  \/ RenameAdd(1)
  \/ RenameFallback(1)
  \/ RenameClear(1)
  \/ Interrupt(1)
  \/ Restart(1)

SpecInterrupt == InitRename /\ [][NextInterrupt]_vars

\* two callers, whose backend calls interleave
NextConcurrent ==
  \E p \in Procs :
    \/ RenameRead(p)
    \/ RenameAdd(p)
    \/ RenameFallback(p)
    \/ RenameClear(p)

SpecConcurrent == InitRename /\ [][NextConcurrent]_vars

\* ================================================================ claims
\* the state the next handler starts from, after the step just taken
StP == [secrets |-> secrets', listing |-> listing', now |-> now', key |-> key',
        user |-> user', calls |-> <<>>, out |-> <<>>]

Pairs(items) == {items[i] : i \in 1..Len(items)}
Keys(items) == {items[i][1] : i \in 1..Len(items)}
NonAudit(items) == {q \in Pairs(items) : q[1] \notin {K_by, K_time}}

\* ret is the mapping m with last_modified_by and last_modified_time added
PlusAudit(ret, m) ==
  /\ ret.ty = "dict"
  /\ NonAudit(ret.items) = NonAudit(m.items)
  /\ Keys(ret.items) = Keys(m.items) \cup {K_by, K_time}

\* the last_modified_time of a payload, as a number
TimeOf(payload) == int_str(getitem(payload.items, K_time).s)

Sentinel == <<SPACE>>
Made(api) == \E i \in 1..Len(calls) : calls[i] = api

\* C1: for every triplet (o,p,n), upper-case letters included, and payload
\* mapping m, add(o,p,n,m) on a store where the identifier does not exist,
\* followed by get(o,p,n), returns m plus the two audit fields.
C1_AddThenGet ==
  (call.op = "add" /\ outcome.exc = NoException) =>
    LET g == get(St, call.account, call.protocol, call.name) IN
    g.exc = NoException /\ PlusAudit(g.ret, call.payload)

\* C2: add (with a mapping payload) on an identifier that exists in the
\* backend, with real content or cleared, fails with DuplicateIdentifier
\* (the backend's ResourceExistsException) and leaves every stored value,
\* that identifier's included, unchanged.
C2_AddExistingFails ==
  [][(call'.op = "add" /\ call'.payload.ty = "dict"
      /\ fkey(lower(call'.account), lower(call'.protocol), lower(call'.name))
           \in DOMAIN secrets)
     => (/\ outcome'.exc = ResourceExistsException
         /\ secrets' = secrets
         /\ listing' = listing)]_vars

C2_Witness ==
  /\ call.op = "add"
  /\ outcome.exc = ResourceExistsException
  /\ key \in DOMAIN secrets
  /\ secrets[key] = Sentinel

\* C3: get(o,p,n) has exactly one of three outcomes, decided by the store:
\* it returns the payload mapping iff the identifier exists with a value
\* other than the single space, raises EmptyPayload iff the stored value is
\* the single space, and raises the backend's NotFound iff the identifier
\* does not exist.
C3_GetOutcomes ==
  call.op = "get" =>
    LET id == fkey(call.account, call.protocol, call.name) IN
    /\ (outcome.exc = NoException) <=> (id \in DOMAIN secrets /\ secrets[id] # Sentinel)
    /\ (outcome.exc = NoException) => (outcome.ret.ty = "dict" /\ str(outcome.ret) = secrets[id])
    /\ (outcome.exc = KeyError_EmptyPayload) <=> (id \in DOMAIN secrets /\ secrets[id] = Sentinel)
    /\ (outcome.exc = ResourceNotFoundException) <=> (id \notin DOMAIN secrets)
    /\ outcome.exc \in {NoException, KeyError_EmptyPayload, ResourceNotFoundException}

C3_Witness ==
  /\ call.op = "get"
  /\ outcome.exc = KeyError_EmptyPayload
  /\ \E id \in DOMAIN secrets : secrets[id] # Sentinel

\* C7: rename whose source and destination triplets are equal in all three
\* fields fails with NoOpRename and makes no backend call, in any store state.
C7_NoOpRename ==
  [][(call'.op = "rename"
      /\ call'.old_account = call'.new_account
      /\ call'.old_protocol = call'.new_protocol
      /\ call'.old_name = call'.new_name)
     => (/\ outcome'.exc = KeyError_NothingRenamed
         /\ calls' = <<>>
         /\ secrets' = secrets
         /\ listing' = listing)]_vars

C7_Witness ==
  /\ call.op = "rename"
  /\ outcome.exc = KeyError_NothingRenamed
  /\ fkey(call.old_account, call.old_protocol, call.old_name) \in DOMAIN secrets
  /\ secrets[fkey(call.old_account, call.old_protocol, call.old_name)] # Sentinel

\* C4: for an existing identifier, clear(o,p,n) followed by get(o,p,n) fails
\* with EmptyPayload, and a following update(o,p,n,m2) and get(o,p,n) succeed
\* and return m2 plus audit fields whose last_modified_time is strictly
\* newer than the one stored before the clear.
C4_ClearUpdateGet ==
  [][(call'.op = "clear" /\ outcome'.exc = NoException /\ secrets[key'] # Sentinel)
     => LET before == eval(secrets[key'])
            g1 == get(StP, call'.account, call'.protocol, call'.name)
        IN /\ g1.exc = KeyError_EmptyPayload
           /\ \A m2 \in DictPayloads :
                LET u == update(g1.st, call'.account, call'.protocol, call'.name, m2)
                    g2 == get(u.st, call'.account, call'.protocol, call'.name)
                IN /\ u.exc = NoException
                   /\ g2.exc = NoException
                   /\ PlusAudit(g2.ret, m2)
                   /\ TimeOf(g2.ret) > TimeOf(before)]_vars

C4_Witness ==
  /\ call.op = "clear"
  /\ outcome.exc = NoException
  /\ get(St, call.account, call.protocol, call.name).exc = KeyError_EmptyPayload
  /\ \E m2 \in DictPayloads :
       LET u == update(St, call.account, call.protocol, call.name, m2)
           g2 == get(u.st, call.account, call.protocol, call.name)
       IN u.exc = NoException /\ PlusAudit(g2.ret, m2) /\ TimeOf(g2.ret) >= now

\* C5: for every pair of different triplets and a non-empty source, after
\* rename((o1,p1,n1),(o2,p2,n2)) completes, get(o2,p2,n2) returns the
\* source's original payload with refreshed audit fields and get(o1,p1,n1)
\* fails with EmptyPayload.
C5_RenameMoves ==
  [][(call'.op = "rename" /\ outcome'.exc = NoException)
     => LET src == eval(secrets[fkey(call'.old_account, call'.old_protocol, call'.old_name)])
            g2 == get(StP, call'.new_account, call'.new_protocol, call'.new_name)
            g1 == get(StP, call'.old_account, call'.old_protocol, call'.old_name)
        IN /\ g2.exc = NoException
           /\ g2.ret.ty = "dict"
           /\ NonAudit(g2.ret.items) = NonAudit(src.items)
           /\ {K_by, K_time} \subseteq Keys(g2.ret.items)
           /\ g1.exc = KeyError_EmptyPayload]_vars

\* C6: for every destination triplet whose identifier (the lower-cased
\* owner/protocol/name) already exists, rename of a non-empty source falls
\* back from the failed add to update at that same identifier, replaces the
\* destination's content with the source payload, prints only a warning and
\* finally clears the old identifier; the fallback is taken only when the
\* destination identifier exists.
C6_RenameFallback ==
  [][call'.op = "rename"
     => LET old_key == fkey(call'.old_account, call'.old_protocol, call'.old_name)
            new_key == fkey(call'.new_account, call'.new_protocol, call'.new_name)
            dest == fkey(lower(call'.new_account), lower(call'.new_protocol),
                         lower(call'.new_name))
        IN /\ (/\ old_key \in DOMAIN secrets
               /\ secrets[old_key] # Sentinel
               /\ dest \in DOMAIN secrets
               /\ dest # old_key)
              => (/\ outcome'.exc = NoException
                  /\ calls' = <<"get_secret_value", "create_secret",
                                "update_secret", "update_secret">>
                  /\ secrets'[dest] # Sentinel
                  /\ NonAudit(eval(secrets'[dest]).items) = NonAudit(eval(secrets[old_key]).items)
                  /\ \E i \in 1..Len(out') : out'[i] = <<"Warning:", new_key, old_key>>
                  /\ secrets'[old_key] = Sentinel)
           /\ (\E i \in 1..Len(out') : out'[i][1] = "Warning:")
              => dest \in DOMAIN secrets]_vars

\* C8: list_all returns every identifier in the backend (here: a backend
\* that holds at least one), in lexicographic order and without duplicates,
\* for a listing split into any number of pages (one, two, three or more).
C8_ListAll ==
  (call.op = "list_all" /\ DOMAIN secrets # {}) =>
    /\ outcome.exc = NoException
    /\ {outcome.ret[i] : i \in 1..Len(outcome.ret)} = DOMAIN secrets
    /\ Len(outcome.ret) = Cardinality(DOMAIN secrets)
    /\ \A i \in 1..Len(outcome.ret), j \in 1..Len(outcome.ret) :
         i < j => str_lt(outcome.ret[i], outcome.ret[j])

\* C9: on a backend that holds identifiers of several owners,
\* search(owner=X) with protocol and name None yields exactly the stored
\* triplets whose owner field is X, and makes no payload read.
C9_SearchOwner ==
  (call.op = "search" /\ call.account # pyNone
   /\ call.protocol = pyNone /\ call.name = pyNone
   /\ Cardinality({split(k)[1] : k \in DOMAIN secrets}) > 1) =>
    /\ outcome.exc = NoException
    /\ {<<out[i][2], out[i][3], out[i][4]>> : i \in 1..Len(out)}
         = {split(id) : id \in {k \in DOMAIN secrets : split(k)[1] = call.account.s}}
    /\ ~Made("get_secret_value")

\* ---- load_credentials (SpecLookup)
\* the value the subscripts reach in Item, pyNone when a key is missing or
\* the value reached is not a mapping
RECURSIVE Resolve(_, _)
Resolve(d, path) ==
  IF d.ty # "dict" THEN pyNone
  ELSE IF path = <<>> THEN d
  ELSE IF ~haskey(d.items, Head(path)) THEN pyNone
  ELSE Resolve(getitem(d.items, Head(path)), Tail(path))

PortNumber(v) == IF v.ty = "int" THEN v.n ELSE int_str(v.s)

\* the lookup returned cred, its port (when it has one) as an integer
ReturnsCoerced(cred) ==
  /\ outcome.exc = NoException
  /\ outcome.ret.ty = "dict"
  /\ Keys(outcome.ret.items) = Keys(cred.items)
  /\ \A q \in Pairs(cred.items) :
       IF q[1] = K_port
       THEN getitem(outcome.ret.items, K_port) = pyInt(PortNumber(q[2]))
       ELSE getitem(outcome.ret.items, q[1]) = q[2]

\* the lookup returns what path selects, and fails when path selects nothing
LookupYields(path) ==
  LET cred == Resolve(table[call.client], path) IN
  IF cred = pyNone THEN outcome.exc = LookupFailed ELSE ReturnsCoerced(cred)

ConcreteOwnerLookup ==
  call.op = "load_credentials" /\ call.client # ALL /\ call.client \in DOMAIN table

\* C10: with a concrete owner the lookup returns the full record when both
\* protocol and name are 'all', the protocol sub-mapping when only name is
\* 'all', and record[protocol][name] in every other case, protocol='all'
\* with a concrete name included.
C10_LookupShape ==
  ConcreteOwnerLookup =>
    IF call.protocol = ALL /\ call.name = ALL THEN LookupYields(<<>>)
    ELSE IF call.name = ALL THEN LookupYields(<<call.protocol>>)
    ELSE LookupYields(<<call.protocol, call.name>>)

\* C10, amended: the full record whenever protocol is 'all' (whatever name
\* is), the protocol sub-mapping when protocol is concrete and name is
\* 'all', and record[protocol][name] when both are concrete.
C10_LookupShapeAmended ==
  ConcreteOwnerLookup =>
    IF call.protocol = ALL THEN LookupYields(<<>>)
    ELSE IF call.name = ALL THEN LookupYields(<<call.protocol>>)
    ELSE LookupYields(<<call.protocol, call.name>>)

C10_Witness ==
  /\ ConcreteOwnerLookup
  /\ call.protocol = ALL
  /\ call.name # ALL
  /\ outcome.exc = NoException
  /\ Keys(outcome.ret.items) = Keys(table[call.client].items)
  /\ haskey(outcome.ret.items, K_port)

\* ---- C11 .. C15, C18 .. C20 (Spec)
\* the triplets whose get addresses identifier id
Addressing(id) == {t \in Triplets : fkey(t[1], t[2], t[3]) = id}

\* C11: after add with a payload whose port field is the string '5432',
\* get of the identifier just created returns the payload with port as the
\* integer 5432 (plus the audit fields): get returns a stored port field
\* converted to an integer.
C11_PortCoerced ==
  [][(call'.op = "add" /\ outcome'.exc = NoException
      /\ haskey(call'.payload.items, K_port))
     => \A t \in Addressing(key') :
          LET g == get(StP, t[1], t[2], t[3])
              port == getitem(call'.payload.items, K_port)
          IN /\ g.exc = NoException
             /\ PlusAudit(pyDict(setitem(g.ret.items, K_port, port)), call'.payload)
             /\ getitem(g.ret.items, K_port) = pyInt(PortNumber(port))]_vars

\* C11, amended: get returns the port field exactly as it was stored, the
\* string '5432' as the string '5432'; get converts no field.
C11_PortAsStored ==
  [][(call'.op = "add" /\ outcome'.exc = NoException
      /\ haskey(call'.payload.items, K_port))
     => \A t \in Addressing(key') :
          LET g == get(StP, t[1], t[2], t[3])
          IN /\ g.exc = NoException
             /\ PlusAudit(g.ret, call'.payload)
             /\ getitem(g.ret.items, K_port) = getitem(call'.payload.items, K_port)]_vars

C11_Witness ==
  /\ call.op = "add"
  /\ outcome.exc = NoException
  /\ haskey(call.payload.items, K_port)
  /\ getitem(call.payload.items, K_port) = pyStr(<<"5", "4", "3", "2">>)
  /\ Addressing(key) # {}
  /\ \A t \in Addressing(key) :
       getitem(get(St, t[1], t[2], t[3]).ret.items, K_port) = pyStr(<<"5", "4", "3", "2">>)

\* C12: both write paths normalise case: the identifier add and the
\* identifier update pass to the backend (self.key) is the lower-cased
\* owner/protocol/name joined with '/', so update(o,p,n,m) addresses the
\* identifier add(o,p,n,...) created.
C12_WritePathsLowerCase ==
  (call.op \in {"add", "update"} /\ call.payload.ty = "dict") =>
    key = fkey(lower(call.account), lower(call.protocol), lower(call.name))

\* C13: add and update called with a payload that is not a mapping fail
\* with InvalidPayload (a Python TypeError) before any backend call, so the
\* store is unchanged.
InvalidPayload == {TypeError_NotDict, TypeError_ItemAssignment}

C13_InvalidPayload ==
  [][(call'.op \in {"add", "update"} /\ call'.payload.ty # "dict")
     => (/\ outcome'.exc \in InvalidPayload
         /\ calls' = <<>>
         /\ secrets' = secrets
         /\ listing' = listing)]_vars

C13_Witness ==
  /\ call.op = "update"
  /\ call.payload.ty # "dict"
  /\ outcome.exc \in InvalidPayload
  /\ key \in DOMAIN secrets

\* C14: update (with a mapping payload) and clear on an identifier that was
\* never created fail with NotFound and create no record: the identifiers
\* and every stored value are unchanged.
C14_UpdateMissingFails ==
  [][(/\ call'.op \in {"update", "clear"}
      /\ call'.op = "update" => call'.payload.ty = "dict"
      /\ fkey(call'.account, call'.protocol, call'.name) \notin DOMAIN secrets)
     => (/\ outcome'.exc = ResourceNotFoundException
         /\ secrets' = secrets
         /\ listing' = listing)]_vars

C14_Witness ==
  /\ call.op = "update"
  /\ outcome.exc = ResourceNotFoundException
  /\ key \notin DOMAIN secrets
  /\ DOMAIN secrets # {}

\* C15: after any sequence of operations every identifier ever created is
\* still registered (the set of identifiers never shrinks); clear only
\* replaces the value with the sentinel, and the cleared identifier still
\* appears in list_all.
Listed(r) == {r.ret[i] : i \in 1..Len(r.ret)}

C15_NeverShrinks ==
  [][/\ DOMAIN secrets \subseteq DOMAIN secrets'
     /\ \A i \in 1..Len(listing) : listing'[i] = listing[i]
     /\ (call'.op = "clear" /\ outcome'.exc = NoException)
        => (/\ secrets'[key'] = Sentinel
            /\ DOMAIN secrets' = DOMAIN secrets
            /\ \A id \in DOMAIN secrets \ {key'} : secrets'[id] = secrets[id]
            /\ \A ps \in 1..MaxPageSize :
                 /\ list_all(StP, ps).exc = NoException
                 /\ key' \in Listed(list_all(StP, ps)))]_vars

\* C18: every stored value other than the sentinel is a mapping that
\* contains both last_modified_by and last_modified_time; clear writes the
\* sentinel, which carries no audit fields.
HasAudit(SecretString) ==
  /\ eval(SecretString) # pyNone
  /\ eval(SecretString).ty = "dict"
  /\ {K_by, K_time} \subseteq Keys(eval(SecretString).items)

C18_AuditFields ==
  /\ \A id \in DOMAIN secrets : secrets[id] # Sentinel => HasAudit(secrets[id])
  /\ (call.op = "clear" /\ outcome.exc = NoException)
     => (secrets[key] = Sentinel /\ ~HasAudit(secrets[key]))

C18_Witness ==
  /\ call.op = "rename"
  /\ outcome.exc = NoException
  /\ \E id \in DOMAIN secrets : secrets[id] = Sentinel
  /\ \E id \in DOMAIN secrets : secrets[id] # Sentinel /\ HasAudit(secrets[id])

\* C19: an add, update, get or clear that fails with DuplicateIdentifier,
\* NotFound or EmptyPayload leaves the client instance's own state, its key
\* attribute included, exactly as it was before the call.
FailsStateless ==
  /\ call'.op \in {"add", "update", "get", "clear"}
  /\ outcome'.exc \in {ResourceExistsException, ResourceNotFoundException,
                       KeyError_EmptyPayload}

C19_FailureKeepsKey ==
  [][FailsStateless => (key' = key /\ user' = user)]_vars

\* C19, amended: such a failing call leaves the user attribute as it was
\* and leaves the key attribute set to the identifier the call built: the
\* lower-cased triplet for add, the triplet as given for update, get, clear.
C19_FailureSetsKey ==
  [][FailsStateless =>
       /\ user' = user
       /\ key' = IF call'.op = "add"
                 THEN fkey(lower(call'.account), lower(call'.protocol), lower(call'.name))
                 ELSE fkey(call'.account, call'.protocol, call'.name)]_vars

C19_Witness ==
  /\ call.op = "get"
  /\ outcome.exc = KeyError_EmptyPayload
  /\ key = fkey(call.account, call.protocol, call.name)
  /\ secrets[key] = Sentinel

\* C20: a rename (of two different triplets) whose source identifier holds
\* the sentinel fails with SourceEmpty after the single read of the source
\* and performs no backend write.
C20_RenameSourceEmpty ==
  [][(/\ call'.op = "rename"
      /\ any_renamed(call'.old_account, call'.old_protocol, call'.old_name,
                     call'.new_account, call'.new_protocol, call'.new_name)
      /\ fkey(call'.old_account, call'.old_protocol, call'.old_name) \in DOMAIN secrets
      /\ secrets[fkey(call'.old_account, call'.old_protocol, call'.old_name)] = Sentinel)
     => (/\ outcome'.exc = KeyError_NoCredentials
         /\ calls' = <<"get_secret_value">>
         /\ secrets' = secrets
         /\ listing' = listing
         /\ now' = now)]_vars

C20_Witness ==
  /\ call.op = "rename"
  /\ outcome.exc = KeyError_NoCredentials
  /\ calls = <<"get_secret_value">>
  /\ secrets[fkey(call.old_account, call.old_protocol, call.old_name)] = Sentinel

\* ---- C16, C17 (SpecInterrupt, SpecConcurrent)
OldId(p) == fkey(procs[p].old[1], procs[p].old[2], procs[p].old[3])

\* the identifier the destination write of caller p went to
Written(p) ==
  IF procs[p].via = "add"
  THEN fkey(lower(procs[p].new[1]), lower(procs[p].new[2]), lower(procs[p].new[3]))
  ELSE fkey(procs[p].new[1], procs[p].new[2], procs[p].new[3])

\* the payload caller p read is stored under the identifier it wrote
HoldsPayload(p) ==
  /\ Written(p) \in DOMAIN secrets
  /\ secrets[Written(p)] = str(procs[p].payload)

\* C16: when rename's read of the source and its destination write have
\* succeeded and the process is interrupted before the final clear, the
\* payload is present under both the old and the new identifier, and it
\* stays so: nothing this layer does afterwards (no further step of the
\* interrupted call, no step at the next start) repairs it.
C16_InterruptedRename ==
  \A p \in Procs :
    (procs[p].pc \in {"interrupted", "restarted"} /\ procs[p].at = "written")
    => (/\ HoldsPayload(p)
        /\ OldId(p) # Written(p)
        /\ OldId(p) \in DOMAIN secrets
        /\ secrets[OldId(p)] # Sentinel
        /\ NonAudit(eval(secrets[OldId(p)]).items) = NonAudit(procs[p].payload.items))

C16_Witness ==
  /\ procs[1].pc = "restarted"
  /\ procs[1].at = "written"
  /\ HoldsPayload(1)
  /\ secrets[OldId(1)] # Sentinel

\* C17: two callers rename the same non-empty source concurrently and only
\* the single backend calls are atomic. Whenever both renames complete
\* without failing, the source payload is stored under more than one
\* identifier (different destinations) or the destination was overwritten
\* by the fallback update (same destination); such a run exists.
BothRenamed ==
  /\ \A p \in Procs : procs[p].pc = "done"
  /\ OldId(1) = OldId(2)

C17_ConcurrentRenames ==
  BothRenamed =>
    IF Written(1) # Written(2)
    THEN /\ \A p \in Procs : HoldsPayload(p)
         /\ NonAudit(procs[1].payload.items) = NonAudit(procs[2].payload.items)
         /\ secrets[OldId(1)] = Sentinel
    ELSE \E p \in Procs : procs[p].via = "update"

C17_Witness ==
  /\ BothRenamed
  /\ Written(1) # Written(2)
  /\ \A p \in Procs : HoldsPayload(p) /\ secrets[Written(p)] # Sentinel

====
